---- MODULE Spec2Model ----
(***************************************************************************)
(* Job Scout (src/app.py): the feed pipeline get_config -> fetch_jobs      *)
(* (fetch, filter, normalize, de-dupe, sort) and its two entry points, the *)
(* HTTP handler jobs() and the CLI one-shot run main().                    *)
(*                                                                         *)
(* Strings are sequences of one-character strings, so that split, strip,   *)
(* lower and the substring test are computed as Python computes them.      *)
(* An optional value (None, an unset environment variable, a missing       *)
(* dictionary key) is <<>>, a present value v is <<v>>.                    *)
(***************************************************************************)
EXTENDS Integers, Sequences, FiniteSets, TLC

VARIABLES
    env,       \* os.environ: FEED_URLS, FEEDS_FILE, KEYWORDS, EXCLUDE_KEYWORDS, HOURS
    files,     \* the file system: path -> the lines of the file at that path
    req,       \* how the process is driven: --once, or one GET /jobs with its query
    now,       \* the last reading of the clock (whole hours)
    pc,        \* position in main() / jobs() / fetch_jobs()
    cfg,       \* the dictionary get_config() returned
    call,      \* the arguments fetch_jobs was called with (<<>> before the call)
    i,         \* fetch_jobs: index of the feed of the `for url in feeds` loop
    j,         \* fetch_jobs: index of the entry of the `for e in parsed.entries` loop
    parsed,    \* fetch_jobs: the entries of the feed last parsed
    results,   \* fetch_jobs: the list before de-duplication
    deduped,   \* fetch_jobs: the list after de-duplication
    items,     \* the list fetch_jobs returned
    out,       \* standard output, one element per print()
    response,  \* the HTTP response of jobs()
    status,    \* how the run ended: "running", "ok", or the exception that ended it
    fetched,   \* history: the urls feedparser.parse was called with, in order
    fileRead,  \* history: load_feeds_from_file was called
    base       \* history: Len(results) when the current feed was fetched

vars == <<env, files, req, now, pc, cfg, call, i, j, parsed, results, deduped,
          items, out, response, status, fetched, fileRead, base>>

-----------------------------------------------------------------------------
(* Python str operations, on sequences of characters *)

None == <<>>
Some(v) == <<v>>

UpperCase == <<"A","B","C","D","E","F","G","H","I","J","K","L","M",
               "N","O","P","Q","R","S","T","U","V","W","X","Y","Z">>
LowerCase == <<"a","b","c","d","e","f","g","h","i","j","k","l","m",
               "n","o","p","q","r","s","t","u","v","w","x","y","z">>

LowerChar(c) ==
    IF \E n \in 1..26 : UpperCase[n] = c
    THEN LowerCase[CHOOSE n \in 1..26 : UpperCase[n] = c]
    ELSE c

\* str.lower()
Lower(s) == [n \in 1..Len(s) |-> LowerChar(s[n])]

IsSpace(c) == c \in {" ", "\n", "\t"}

\* str.strip()
Strip(s) ==
    IF \A n \in 1..Len(s) : IsSpace(s[n])
    THEN <<>>
    ELSE LET first == CHOOSE n \in 1..Len(s) :
                          /\ ~IsSpace(s[n])
                          /\ \A m \in 1..(n-1) : IsSpace(s[m])
             last  == CHOOSE n \in 1..Len(s) :
                          /\ ~IsSpace(s[n])
                          /\ \A m \in (n+1)..Len(s) : IsSpace(s[m])
         IN  SubSeq(s, first, last)

\* str.split(sep) for a one-character sep: n separators give n+1 pieces
RECURSIVE Split(_, _)
Split(s, sep) ==
    IF \A n \in 1..Len(s) : s[n] # sep
    THEN <<s>>
    ELSE LET p == CHOOSE n \in 1..Len(s) :
                      /\ s[n] = sep
                      /\ \A m \in 1..(n-1) : s[m] # sep
         IN  <<SubSeq(s, 1, p-1)>> \o Split(SubSeq(s, p+1, Len(s)), sep)

\* sep.join(parts)
RECURSIVE Join(_, _)
Join(parts, sep) ==
    IF parts = <<>> THEN <<>>
    ELSE IF Len(parts) = 1 THEN parts[1]
    ELSE parts[1] \o sep \o Join(Tail(parts), sep)

\* the substring test `k in t`
Contains(k, t) ==
    \E p \in 1..(Len(t) - Len(k) + 1) : SubSeq(t, p, p + Len(k) - 1) = k

\* str.startswith(prefix)
StartsWith(s, prefix) ==
    /\ Len(prefix) <= Len(s)
    /\ SubSeq(s, 1, Len(prefix)) = prefix

MapSeq(s, Op(_)) == [n \in 1..Len(s) |-> Op(s[n])]

NonEmpty(v) == v # <<>>

DigitValue(c) ==
    CASE c = "0" -> 0 [] c = "1" -> 1 [] c = "2" -> 2 [] c = "3" -> 3
      [] c = "4" -> 4 [] c = "5" -> 5 [] c = "6" -> 6 [] c = "7" -> 7
      [] c = "8" -> 8 [] c = "9" -> 9

\* int(s) for a string of decimal digits
RECURSIVE ParseInt(_)
ParseInt(s) ==
    IF Len(s) = 1 THEN DigitValue(s[1])
    ELSE 10 * ParseInt(SubSeq(s, 1, Len(s) - 1)) + DigitValue(s[Len(s)])

-----------------------------------------------------------------------------
(* Configuration: lines 13-49 *)

DEFAULT_KEYWORDS == <<
    <<"d","e","v","o","p","s">>,
    <<"c","l","o","u","d"," ","e","n","g","i","n","e","e","r">>,
    <<"s","i","t","e"," ","r","e","l","i","a","b","i","l","i","t","y">>,
    <<"s","r","e">>,
    <<"p","l","a","t","f","o","r","m"," ","e","n","g","i","n","e","e","r">>,
    <<"i","n","f","r","a","s","t","r","u","c","t","u","r","e">> >>

DefaultFeedsFile ==
    <<"f","e","e","d","s",".","e","x","a","m","p","l","e",".","t","x","t">>

DefaultHours == <<"2","4">>

\* os.getenv(name, default)
Getenv(name, default) == IF env[name] = None THEN default ELSE env[name][1]

parse_env_list(value) ==
    IF value = <<>> THEN <<>>
    ELSE SelectSeq(MapSeq(Split(value, ","), Strip), NonEmpty)

IsFeedLine(line) == Strip(line) # <<>> /\ ~StartsWith(Strip(line), <<"#">>)

\* the list load_feeds_from_file returns
load_feeds_from_file(path) ==
    IF path = <<>> \/ path \notin DOMAIN files
    THEN <<>>
    ELSE MapSeq(SelectSeq(files[path], IsFeedLine), Strip)

\* a slip: the feeds file read whatever FEED_URLS holds
ConsultsFileAlways == TRUE

\* get_config consults the feeds file only when FEED_URLS yields no feed
ConsultsFile == parse_env_list(Getenv("FEED_URLS", <<>>)) = <<>>

get_config ==
    LET feed_urls_env == Getenv("FEED_URLS", <<>>)
        feeds_file    == Getenv("FEEDS_FILE", DefaultFeedsFile)
        keywords_env  == Getenv("KEYWORDS", Join(DEFAULT_KEYWORDS, <<",">>))
        exclude_env   == Getenv("EXCLUDE_KEYWORDS", <<>>)
        hours_env     == ParseInt(Getenv("HOURS", DefaultHours))
    IN  [feeds    |-> IF ConsultsFile
                      THEN load_feeds_from_file(feeds_file)
                      ELSE parse_env_list(feed_urls_env),
         keywords |-> MapSeq(parse_env_list(keywords_env), Lower),
         exclude  |-> MapSeq(parse_env_list(exclude_env), Lower),
         hours    |-> hours_env]

-----------------------------------------------------------------------------
(* Feed entries and the entry filter: lines 51-63 *)

\* getattr(e, name, default); an absent attribute is None in the model
Getattr(e, name, default) == IF e[name] = None THEN default ELSE e[name][1]

\* Python's `a or b` on optional values
OrElse(a, b) == IF a # None THEN a ELSE b

\* datetime(*published_parsed[:6], tzinfo=utc), in whole hours; a struct_time
\* whose fields datetime() rejects (valid = FALSE) makes it raise ValueError
DateTime(st) == st.hour

RaisesValueError(st) == ~st.valid

\* a slip: the boundary compared with > instead of >=
within_hours_strict(published_parsed, hours, clock) ==
    IF published_parsed = None THEN FALSE
    ELSE DateTime(published_parsed[1]) > clock - hours


within_hours(published_parsed, hours, clock) ==
    IF published_parsed = None THEN FALSE
    ELSE DateTime(published_parsed[1]) >= clock - hours

RECURSIVE AnyContained(_, _)
AnyContained(ks, t) ==
    IF ks = <<>> THEN FALSE
    ELSE Contains(Head(ks), t) \/ AnyContained(Tail(ks), t)

match_keywords(text, keywords) ==
    LET t == Lower(text)
    IN  IF keywords # <<>> THEN AnyContained(keywords, t) ELSE TRUE

match_exclusions(text, exclude) ==
    LET t == Lower(text)
    IN  IF exclude # <<>> THEN AnyContained(exclude, t) ELSE FALSE

\* lines 86-90
EntryText(e) ==
    Join(<<Getattr(e, "title", <<>>),
           Getattr(e, "summary", <<>>),
           Getattr(e, "description", <<>>)>>, <<" ">>)

\* line 91
EntryTime(e) == OrElse(e.published_parsed, e.updated_parsed)

-----------------------------------------------------------------------------
(* normalize_entry: lines 65-78 *)

Digits == <<"0","1","2","3","4","5","6","7","8","9">>

\* datetime.isoformat(): fixed-width, zero-padded decimal fields
IsoFormat(t) == <<Digits[(t \div 10) + 1], Digits[(t % 10) + 1]>>

SchemeChars == {UpperCase[n] : n \in 1..26} \cup {LowerCase[n] : n \in 1..26}
                   \cup {Digits[n] : n \in 1..10} \cup {"+", "-", "."}

\* urlsplit: what is left of the url after its scheme
AfterScheme(url) ==
    LET colons == {p \in 2..Len(url) :
                       /\ url[p] = ":"
                       /\ \A m \in 1..(p-1) : url[m] \in SchemeChars}
    IN  IF colons = {} THEN url
        ELSE LET p == CHOOSE q \in colons : TRUE
             IN  SubSeq(url, p + 1, Len(url))

\* urlparse(link).netloc
Netloc(url) ==
    LET rest == AfterScheme(url)
        ends == {p \in 3..Len(rest) : rest[p] \in {"/", "?", "#"}}
        stop == IF ends = {} THEN Len(rest)
                ELSE (CHOOSE p \in ends : \A q \in ends : p <= q) - 1
    IN  IF StartsWith(rest, <<"/", "/">>) THEN SubSeq(rest, 3, stop) ELSE <<>>

\* lines 66-70: published_parsed first, updated_parsed otherwise
PublishedOf(e) ==
    IF e.published_parsed # None
    THEN Some(IsoFormat(DateTime(e.published_parsed[1])))
    ELSE IF e.updated_parsed # None
    THEN Some(IsoFormat(DateTime(e.updated_parsed[1])))
    ELSE None

normalize_entry(e) ==
    [title     |-> Getattr(e, "title", <<>>),
     link      |-> Getattr(e, "link", <<>>),
     summary   |-> Getattr(e, "summary", <<>>),
     published |-> PublishedOf(e),
     source    |-> Netloc(Getattr(e, "link", <<>>))]

\* line 102: {"error": f"Failed to parse {url}: {ex}"}
ErrorRecord(url, ex) == [error |-> <<"Failed to parse ">> \o url \o <<": ", ex>>]

-----------------------------------------------------------------------------
(* De-duplication and sort: lines 103-113 *)

\* r.get(name)
Get(r, name) == IF name \in DOMAIN r THEN Some(r[name]) ELSE None

\* line 107
DedupKey(r) == <<Get(r, "link"), Get(r, "title")>>

RECURSIVE DedupLoop(_, _, _)
DedupLoop(rs, seen, acc) ==
    IF rs = <<>> THEN acc
    ELSE LET key == DedupKey(Head(rs))
         IN  IF key \notin seen
             THEN DedupLoop(Tail(rs), seen \cup {key}, Append(acc, Head(rs)))
             ELSE DedupLoop(Tail(rs), seen, acc)

\* a slip: the last item with a key replaces the earlier ones
RECURSIVE DedupKeepLast(_)
DedupKeepLast(rs) ==
    IF rs = <<>> THEN <<>>
    ELSE IF \E n \in 2..Len(rs) : DedupKey(rs[n]) = DedupKey(Head(rs))
    THEN DedupKeepLast(Tail(rs))
    ELSE <<Head(rs)>> \o DedupKeepLast(Tail(rs))


Dedup(rs) == DedupLoop(rs, {}, <<>>)

\* line 112: r.get("published") or ""
SortKey(r) ==
    IF "published" \in DOMAIN r /\ r.published # None THEN r.published[1] ELSE <<>>

Ord(c) == CHOOSE n \in 1..10 : Digits[n] = c

\* Python's str < str: by code point, a proper prefix first
RECURSIVE StrLess(_, _)
StrLess(a, b) ==
    IF b = <<>> THEN FALSE
    ELSE IF a = <<>> THEN TRUE
    ELSE IF Head(a) # Head(b) THEN Ord(Head(a)) < Ord(Head(b))
    ELSE StrLess(Tail(a), Tail(b))

\* a slip: reverse=True left out
BeforeAscending(x, y) == StrLess(SortKey(x), SortKey(y))

\* list.sort(reverse=True) puts x before y when key(y) < key(x)
Before(x, y) == StrLess(SortKey(y), SortKey(x))

\* insert r into a sorted list behind every element it does not precede
RECURSIVE InsertSorted(_, _)
InsertSorted(sorted, r) ==
    IF sorted = <<>> THEN <<r>>
    ELSE IF Before(r, Head(sorted)) THEN <<r>> \o sorted
    ELSE <<Head(sorted)>> \o InsertSorted(Tail(sorted), r)

\* list.sort(key=..., reverse=True): a stable sort
RECURSIVE SortNewestFirst(_)
SortNewestFirst(rs) ==
    IF rs = <<>> THEN <<>>
    ELSE InsertSorted(SortNewestFirst(SubSeq(rs, 1, Len(rs) - 1)), rs[Len(rs)])

-----------------------------------------------------------------------------
(* Inputs of the model *)

MaxEntries == 2     \* entries a feed document holds at most
MaxClock   == 11    \* the clock reads at most this hour
FirstClock == 10    \* the hour at which the process starts

Str_SRE    == <<"S","R","E">>
Str_Chef   == <<"C","h","e","f">>
Str_Intern == <<"I","n","t","e","r","n">>
Link1      == <<"h","t","t","p",":","/","/","x",".","i","o","/","1">>
Link2      == <<"h","t","t","p",":","/","/","y",".","i","o","/","2","?","q">>

StructTime(h) == Some([hour |-> h, valid |-> TRUE])
BadStructTime == Some([hour |-> 10, valid |-> FALSE])

Entry(title, summary, link, published, updated) ==
    [title |-> title, summary |-> summary, description |-> None, link |-> link,
     published_parsed |-> published, updated_parsed |-> updated]

\* the entries feed documents are made of
Entry_Fresh     == Entry(Some(Str_SRE), None, Some(Link1), StructTime(10), None)
Entry_Repost    == Entry(Some(Str_SRE), None, Some(Link1), StructTime(9), StructTime(10))
Entry_Intern    == Entry(Some(Str_SRE), Some(Str_Intern), Some(Link2), StructTime(10), None)
Entry_Bare      == Entry(None, Some(Str_Chef), None, None, StructTime(9))
Entry_Undated   == Entry(Some(Str_SRE), None, Some(Link2), None, None)
Entry_Malformed == Entry(Some(Str_SRE), None, Some(Link1), BadStructTime, None)

Entries == {Entry_Fresh, Entry_Repost, Entry_Intern, Entry_Bare, Entry_Undated,
            Entry_Malformed}

RECURSIVE SeqsUpTo(_, _)
SeqsUpTo(S, n) ==
    IF n = 0 THEN {<<>>}
    ELSE LET shorter == SeqsUpTo(S, n - 1)
         IN  shorter \cup {Append(s, x) : s \in shorter, x \in S}

\* the documents feedparser.parse may return
Feeds == SeqsUpTo(Entries, MaxEntries)

\* the exceptions feedparser.parse may raise
FetchErrors == {"URLError"}

Environ(feed_urls, feeds_file, keywords, exclude, hours) ==
    [FEED_URLS |-> feed_urls, FEEDS_FILE |-> feeds_file, KEYWORDS |-> keywords,
     EXCLUDE_KEYWORDS |-> exclude, HOURS |-> hours]

Once == [mode |-> "once", hours |-> None, keywords |-> None, exclude |-> None]
Http(hours, keywords, exclude) ==
    [mode |-> "http", hours |-> hours, keywords |-> keywords, exclude |-> exclude]

-----------------------------------------------------------------------------
(* The state after start-up, before main() or jobs() runs *)

Fresh ==
    /\ now = FirstClock
    /\ pc = "start"
    /\ cfg = None
    /\ call = None
    /\ i = 0
    /\ j = 0
    /\ parsed = <<>>
    /\ results = <<>>
    /\ deduped = <<>>
    /\ items = <<>>
    /\ out = <<>>
    /\ response = None
    /\ status = "running"
    /\ fetched = <<>>
    /\ fileRead = FALSE
    /\ base = 0

PipelineEnvs ==
    {Environ(Some(f), None, k, x, h) :
        f \in {<<"a">>, <<"a", ",", " ", "b">>},
        k \in {None, Some(<<>>)},
        x \in {None, Some(Str_Intern)},
        h \in {Some(<<"1">>), Some(<<"2">>)}}

\* runs of the pipeline over one or two feeds
Init ==
    /\ \/ env \in PipelineEnvs /\ req = Once
       \/ env = Environ(Some(<<"a", ",", "b">>), None, None, None, Some(<<"2">>))
             /\ req = Http(None, None, None)
    /\ files = <<>>
    /\ Fresh

-----------------------------------------------------------------------------
(* Start states for the configuration and query handling *)

MaxEnvLen == 3      \* characters an environment or query string holds at most
MaxLines  == 2      \* lines the feeds file holds at most

RECURSIVE SeqsOfLen(_, _)
SeqsOfLen(S, n) ==
    IF n = 0 THEN {<<>>}
    ELSE {Append(s, x) : s \in SeqsOfLen(S, n - 1), x \in S}

Strings(chars) == UNION {SeqsOfLen(chars, n) : n \in 0..MaxEnvLen}

OtherFeedsFile == <<"f">>

FileLines == {<<>>, <<" ", "b", " ">>, <<" ", "#", "a">>}

FileContents == UNION {SeqsOfLen(FileLines, n) : n \in 0..MaxLines}

FileSystems ==
    {<<>>} \cup {(path :> lines) : path \in {DefaultFeedsFile, OtherFeedsFile},
                                  lines \in FileContents}

\* the feed list is resolved from every FEED_URLS string and feeds file
FeedSourceStarts ==
    /\ env \in {Environ(f, p, None, None, None) :
                  f \in {None} \cup {Some(v) : v \in Strings({"a", ",", " "})},
                  p \in {None, Some(OtherFeedsFile)}}
    /\ files \in FileSystems
    /\ req = Once

\* GET /jobs with every hours, keywords and exclude query, with and without feeds
QueryStarts ==
    /\ env \in {Environ(f, None, None, x, None) :
                  f \in {None, Some(<<"a">>)},
                  x \in {None, Some(<<"E">>)}}
    /\ files = <<>>
    /\ req \in {Http(h, k, x) :
                  h \in {None, Some(1)},
                  k \in {None} \cup {Some(v) : v \in Strings({"E", ",", " "})},
                  x \in {None, Some(<<>>), Some(<<"E">>), Some(<<" ", ",">>)}}

InitFacade ==
    /\ FeedSourceStarts \/ QueryStarts
    /\ Fresh

\* the one document the feeds serve in these runs
FacadeDocs == {<<Entry_Fresh, Entry_Undated, Entry_Malformed>>}

-----------------------------------------------------------------------------
(* The entry points up to the call of fetch_jobs: lines 124-135, 144-149 *)

NoFeedsLine == <<"No feeds configured. Set FEED_URLS or provide feeds.example.txt">>
NoFeedsError ==
    [error |-> <<"No feeds configured. Set FEED_URLS or provide feeds.example.txt.">>]

StripLower(k) == Lower(Strip(k))

\* lines 126-127: a query string that is given and not empty replaces the default
Override(given, default) ==
    IF given # None /\ given[1] # <<>>
    THEN MapSeq(Split(given[1], ","), StripLower)
    ELSE default

\* a slip: the check of line 129 left out
JobsNeverRefuses(c) == FALSE

\* line 129: jobs() answers without running the pipeline
JobsRefuses(c) == c.feeds = <<>>

\* line 146: main() stops without running the pipeline
MainRefuses(c) == c.feeds = <<>>

EnterFetchJobs(feeds, keywords, exclude, hours) ==
    /\ call' = Some([feeds |-> feeds, keywords |-> keywords,
                     exclude |-> exclude, hours |-> hours])
    /\ pc' = "feed"
    /\ i' = 1
    /\ UNCHANGED <<out, response, status>>

\* main() with --once, up to the summary line
MainOnce ==
    /\ pc = "start"
    /\ req.mode = "once"
    /\ LET c == get_config
       IN  /\ cfg' = Some(c)
           /\ fileRead' = ConsultsFile
           /\ IF MainRefuses(c)
              THEN /\ out' = <<NoFeedsLine>>
                   /\ pc' = "done"
                   /\ status' = "ok"
                   /\ UNCHANGED <<call, i, response>>
              ELSE EnterFetchJobs(c.feeds, c.keywords, c.exclude, c.hours)
    /\ UNCHANGED <<env, files, req, now, j, parsed, results, deduped, items,
                   fetched, base>>

\* jobs(), up to the call of fetch_jobs
Jobs ==
    /\ pc = "start"
    /\ req.mode = "http"
    /\ LET c   == get_config
           hrs == IF req.hours # None THEN req.hours[1] ELSE c.hours
           ks  == Override(req.keywords, c.keywords)
           ex  == Override(req.exclude, c.exclude)
       IN  /\ cfg' = Some(c)
           /\ fileRead' = ConsultsFile
           /\ IF JobsRefuses(c)
              THEN /\ response' = Some([status_code |-> 400, content |-> NoFeedsError])
                   /\ pc' = "done"
                   /\ status' = "ok"
                   /\ UNCHANGED <<call, i, out>>
              ELSE EnterFetchJobs(c.feeds, ks, ex, hrs)
    /\ UNCHANGED <<env, files, req, now, j, parsed, results, deduped, items,
                   fetched, base>>

-----------------------------------------------------------------------------
(* fetch_jobs: lines 80-113 *)

Args == call[1]
Url  == Args.feeds[i]

InFeedLoop == pc = "feed" /\ i <= Len(Args.feeds)

\* the `for url in feeds` loop goes on with the next url
NextFeed ==
    /\ pc' = "feed"
    /\ i' = i + 1

\* the `for e in parsed.entries` loop goes on with the next entry, if any
NextEntry ==
    IF j < Len(parsed)
    THEN /\ pc' = "entry"
         /\ j' = j + 1
         /\ i' = i
    ELSE /\ NextFeed
         /\ j' = j

\* a slip: the try statement around the loop instead of inside it
ExceptClauseEndsLoop(ex) ==
    /\ results' = Append(results, ErrorRecord(Url, ex))
    /\ pc' = "feed"
    /\ i' = Len(Args.feeds) + 1

\* lines 101-102: the except clause, then the next url
ExceptClause(ex) ==
    /\ results' = Append(results, ErrorRecord(Url, ex))
    /\ NextFeed

\* line 55: datetime.now() reads the clock, which never goes back
ClockRead == now' \in now..MaxClock

\* line 84: feedparser.parse(url) returns a document (one of `docs`)
FetchFeedOk(docs) ==
    /\ InFeedLoop
    /\ \E doc \in docs :
          /\ parsed' = doc
          /\ IF doc = <<>>
             THEN NextFeed /\ j' = 0
             ELSE pc' = "entry" /\ j' = 1 /\ i' = i
    /\ fetched' = Append(fetched, Url)
    /\ base' = Len(results)
    /\ UNCHANGED <<env, files, req, now, cfg, call, results, deduped, items, out,
                   response, status, fileRead>>

\* line 84: feedparser.parse(url) raises
FetchFeedFails ==
    /\ InFeedLoop
    /\ \E ex \in FetchErrors : ExceptClause(ex)
    /\ fetched' = Append(fetched, Url)
    /\ base' = Len(results)
    /\ UNCHANGED <<env, files, req, now, cfg, call, j, parsed, deduped, items, out,
                   response, status, fileRead>>

AtEntry == pc = "entry"
e == parsed[j]

\* lines 93-98 on entry e, with the clock reading `clock`
Survives(clock) ==
    /\ within_hours(EntryTime(e), Args.hours, clock)
    /\ match_keywords(EntryText(e), Args.keywords)
    /\ ~match_exclusions(EntryText(e), Args.exclude)

\* line 54 raises inside within_hours
EntryFails == EntryTime(e) # None /\ RaisesValueError(EntryTime(e)[1])

\* lines 86-100: the entry passes the three filters and is appended
EntryKept ==
    /\ AtEntry
    /\ ~EntryFails
    /\ ClockRead
    /\ Survives(now')
    /\ results' = Append(results, normalize_entry(e))
    /\ NextEntry
    /\ UNCHANGED <<env, files, req, cfg, call, parsed, deduped, items, out,
                   response, status, fetched, fileRead, base>>

\* lines 86-98: a filter says `continue`
EntrySkipped ==
    /\ AtEntry
    /\ ~EntryFails
    /\ ClockRead
    /\ ~Survives(now')
    /\ NextEntry
    /\ UNCHANGED <<env, files, req, cfg, call, parsed, results, deduped, items,
                   out, response, status, fetched, fileRead, base>>

\* lines 86-102: processing the entry raises, the except clause ends the feed
EntryRaises ==
    /\ AtEntry
    /\ EntryFails
    /\ ExceptClause("ValueError")
    /\ UNCHANGED <<env, files, req, now, cfg, call, j, parsed, deduped, items, out,
                   response, status, fetched, fileRead, base>>

\* lines 103-110
Dedupe ==
    /\ pc = "feed"
    /\ i > Len(Args.feeds)
    /\ deduped' = Dedup(results)
    /\ pc' = "sort"
    /\ UNCHANGED <<env, files, req, now, cfg, call, i, j, parsed, results, items,
                   out, response, status, fetched, fileRead, base>>

\* lines 111-113: the list is sorted in place and returned
SortAndReturn ==
    /\ pc = "sort"
    /\ deduped' = SortNewestFirst(deduped)
    /\ items' = deduped'
    /\ pc' = "returned"
    /\ UNCHANGED <<env, files, req, now, cfg, call, i, j, parsed, results, out,
                   response, status, fetched, fileRead, base>>

-----------------------------------------------------------------------------
(* The entry points after fetch_jobs returned: lines 136, 150-156 *)

PrintLimit == 25

Take(s, n) == SubSeq(s, 1, IF Len(s) < n THEN Len(s) ELSE n)

SummaryLine(n) == <<"Found", n, "postings in last", cfg[1].hours, "h matching",
                    cfg[1].keywords>>

\* lines 152-155 for one item: it['title'] raises KeyError when the key is missing
ItemLines(it) ==
    <<<<"- ", it.title, "  [", it.source, "]">>, <<"  ", it.link>>>>
        \o (IF it.published # None /\ it.published[1] # <<>>
            THEN <<<<"  published: ", it.published[1]>>>>
            ELSE <<>>)

HasKeys(it) == {"title", "source", "link", "published"} \subseteq DOMAIN it

\* the for loop of lines 151-155: what it prints and how it ends
RECURSIVE Listing(_)
Listing(its) ==
    IF its = <<>> THEN [lines |-> <<>>, ended |-> "ok"]
    ELSE IF ~HasKeys(Head(its)) THEN [lines |-> <<>>, ended |-> "KeyError"]
    ELSE LET rest == Listing(Tail(its))
         IN  [lines |-> ItemLines(Head(its)) \o rest.lines, ended |-> rest.ended]

\* main(): lines 150-156
MainPrint ==
    /\ pc = "returned"
    /\ req.mode = "once"
    /\ LET listing == Listing(Take(items, PrintLimit))
       IN  /\ out' = <<SummaryLine(Len(items))>> \o listing.lines
           /\ status' = listing.ended
    /\ pc' = "done"
    /\ UNCHANGED <<env, files, req, now, cfg, call, i, j, parsed, results, deduped,
                   items, response, fetched, fileRead, base>>

\* jobs(): line 136
JobsReturn ==
    /\ pc = "returned"
    /\ req.mode = "http"
    /\ response' = Some([status_code |-> 200,
                         content |-> [count |-> Len(items), hours |-> Args.hours,
                                      keywords |-> Args.keywords,
                                      exclude |-> Args.exclude, items |-> items]])
    /\ status' = "ok"
    /\ pc' = "done"
    /\ UNCHANGED <<env, files, req, now, cfg, call, i, j, parsed, results, deduped,
                   items, out, fetched, fileRead, base>>

-----------------------------------------------------------------------------

Next ==
    \/ MainOnce
    \/ Jobs
    \/ FetchFeedOk(Feeds)
    \/ FetchFeedFails
    \/ EntryKept
    \/ EntrySkipped
    \/ EntryRaises
    \/ Dedupe
    \/ SortAndReturn
    \/ MainPrint
    \/ JobsReturn

Spec == Init /\ [][Next]_vars

NextFacade ==
    \/ MainOnce
    \/ Jobs
    \/ FetchFeedOk(FacadeDocs)
    \/ FetchFeedFails
    \/ EntryKept
    \/ EntrySkipped
    \/ EntryRaises
    \/ Dedupe
    \/ SortAndReturn
    \/ MainPrint
    \/ JobsReturn

SpecFacade == InitFacade /\ [][NextFacade]_vars

-----------------------------------------------------------------------------
(* Properties of fetch_jobs *)

IsError(r)   == "error" \in DOMAIN r
IsPosting(r) == ~IsError(r)

Last(s) == s[Len(s)]

IsPrefix(s, t) == Len(s) <= Len(t) /\ SubSeq(t, 1, Len(s)) = s

InLoops == pc \in {"feed", "entry"}

AfterLoops == pc \in {"sort", "returned"}

NumErrors(rs) == Cardinality({n \in 1..Len(rs) : IsError(rs[n])})

\* what the feed being processed has contributed to results so far
Contribution == SubSeq(results, base + 1, Len(results))

\* C1: a failing feed neither ends fetch_jobs nor costs another feed its
\* results: while the feeds are processed nothing is ever taken out of results,
\* a step that records a failure goes on with the next feed of the list, and
\* when the loop is left feedparser.parse has been called for every feed of
\* the list, in order, and fetch_jobs is still running normally.
C1_FailureIsolated ==
    /\ [][InLoops =>
            /\ pc' \in {"feed", "entry", "sort"}
            /\ IsPrefix(results, results')
            /\ NumErrors(results') > NumErrors(results) =>
                  pc' = "feed" /\ i' = i + 1 /\ i' <= Len(Args.feeds) + 1]_vars
    /\ [](AfterLoops => fetched = Args.feeds /\ status = "running")

\* C1 witness: the first feed failed, and the second feed was still fetched
\* and its surviving entry is in results.
C1_Witness ==
    /\ pc = "sort"
    /\ Len(Args.feeds) = 2
    /\ Len(results) >= 2
    /\ IsError(results[1])
    /\ IsPosting(results[2])

\* C2 (as claimed): the returned list holds one error record for each feed
\* that failed, that is, as many as were appended to results.
C2_ErrorsPassThrough ==
    pc = "returned" => NumErrors(items) = NumErrors(results)

\* the timestamp of an entry as the claim words it: published, else updated
ClaimedTime(x) ==
    IF x.published_parsed # None THEN x.published_parsed
    ELSE x.updated_parsed

ClaimedText(x) ==
    Lower(Getattr(x, "title", <<>>) \o <<" ">> \o Getattr(x, "summary", <<>>)
              \o <<" ">> \o Getattr(x, "description", <<>>))

MatchesSome(ks, t) == \E n \in 1..Len(ks) : Contains(ks[n], t)

\* the entry is no older than `hours` hours at `clock`, matches the inclusion
\* keywords (any, when there are none) and matches no exclusion keyword
ClaimedSurvivor(x, clock) ==
    /\ ClaimedTime(x) # None
    /\ clock - ClaimedTime(x)[1].hour <= Args.hours
    /\ Args.keywords = <<>> \/ MatchesSome(Args.keywords, ClaimedText(x))
    /\ ~MatchesSome(Args.exclude, ClaimedText(x))

\* C3: an entry that is processed without failure is appended to results if
\* and only if it has a timestamp (published, else updated) at most `hours`
\* hours older than the clock reading, matches the inclusion keywords (an empty
\* list matches) and matches no exclusion keyword; otherwise results is left
\* as it was.
C3_AppendedIffSurvivor ==
    [][AtEntry /\ ~EntryFails =>
          IF ClaimedSurvivor(e, now')
          THEN results' = Append(results, normalize_entry(e))
          ELSE results' = results]_vars

\* C3 witness: the entry just appended was exactly `hours` hours old.
C3_Witness ==
    /\ InLoops
    /\ call # None
    /\ Len(results) > base
    /\ IsPosting(Last(results))
    /\ Last(results).published = Some(IsoFormat(now - Args.hours))

ClaimedKey(r) == <<r.link, r.title>>

\* the places of results that hold the first posting with their (link, title)
FirstOccurrences(rs) ==
    {n \in 1..Len(rs) :
        /\ IsPosting(rs[n])
        /\ \A m \in 1..(n-1) : IsPosting(rs[m]) => ClaimedKey(rs[m]) # ClaimedKey(rs[n])}

\* the elements of s at the places in `at`, in the order of s
Pick(s, at) ==
    [k \in 1..Cardinality(at) |->
        s[CHOOSE n \in at : Cardinality({m \in at : m <= n}) = k]]

\* C4: after de-duplication the postings are exactly the first occurrences of
\* each (link, title) among the postings of results, in the order they have
\* in results.
C4_FirstOccurrenceKept ==
    pc = "sort" =>
        SelectSeq(deduped, IsPosting) = Pick(results, FirstOccurrences(results))

\* C4 witness: results holds the same (link, title) twice, with different
\* published values, and de-duplication dropped something.
C4_Witness ==
    /\ pc = "sort"
    /\ \E m, n \in 1..Len(results) :
          /\ m < n
          /\ IsPosting(results[m]) /\ IsPosting(results[n])
          /\ ClaimedKey(results[m]) = ClaimedKey(results[n])
          /\ results[m].published # results[n].published
    /\ Len(deduped) < Len(results)

HasPublished(r) == IsPosting(r) /\ r.published # None /\ r.published[1] # <<>>

\* the published value as a number; 0 stands below every published value
PublishedRank(r) == IF HasPublished(r) THEN 1 + ParseInt(r.published[1]) ELSE 0

PlaceIn(s, r) == CHOOSE n \in 1..Len(s) : s[n] = r

\* `after` is `before` ordered by published descending, those without one
\* last, ties in the order of `before`
SortedNewestFirstStable(before, after) ==
    /\ Len(after) = Len(before)
    /\ \A n \in 1..Len(before) : \E m \in 1..Len(after) : after[m] = before[n]
    /\ \A n \in 1..(Len(after) - 1) : PublishedRank(after[n]) >= PublishedRank(after[n+1])
    /\ \A m, n \in 1..Len(after) :
          HasPublished(after[m]) /\ ~HasPublished(after[n]) => m < n
    /\ \A m, n \in 1..Len(before) :
          m < n /\ PublishedRank(before[m]) = PublishedRank(before[n])
              => PlaceIn(after, before[m]) < PlaceIn(after, before[n])

\* C5: the list fetch_jobs returns is the de-duplicated list ordered by
\* published descending: adjacent items never ascend, items without a
\* published value (error records among them) come after all that have one,
\* and items with equal or absent published keep their order from the
\* de-duplicated list.
C5_SortedNewestFirst ==
    [][pc = "sort" => SortedNewestFirstStable(deduped, items')]_vars

\* C5 witness: the error record that came first in results is returned last,
\* behind postings of which the first two have equal published values.
C5_Witness ==
    /\ pc = "returned"
    /\ Len(items) >= 3
    /\ IsError(results[1])
    /\ IsError(Last(items))
    /\ HasPublished(items[1]) /\ HasPublished(items[2])
    /\ items[1].published = items[2].published

\* C9 (as claimed): what one feed contributes to results is either postings
\* only or one error record only.
C9_PostingsOrOneError ==
    (InLoops /\ fetched # <<>> /\ \E n \in 1..Len(Contribution) : IsError(Contribution[n]))
        => Len(Contribution) = 1


-----------------------------------------------------------------------------
(* Properties of the entry points *)

Min(a, b) == IF a < b THEN a ELSE b

\* the prints that start the listing of an item
ListedItems == {n \in 1..Len(out) : out[n][1] = "- "}

\* C6 (as claimed): a one-shot run with feeds configured prints the summary
\* line, lists the first min(25, n) items and ends normally, whatever
\* fetch_jobs returned.
C6_OneShotNeverAborts ==
    (pc = "done" /\ req.mode = "once" /\ cfg[1].feeds # <<>>) =>
        /\ status = "ok"
        /\ out # <<>> /\ out[1][1] = "Found"
        /\ Cardinality(ListedItems) = Min(PrintLimit, Len(items))

\* C7: once the resolved feed list is empty, no feed is ever fetched and
\* fetch_jobs is never entered; the run ends at once and normally, jobs()
\* with status 400 and an `error` message whatever the query was, main()
\* with its one explanatory line and nothing else printed.
C7_UnconfiguredRefused ==
    (cfg # None /\ cfg[1].feeds = <<>>) =>
        /\ fetched = <<>>
        /\ call = None
        /\ pc = "done"
        /\ status = "ok"
        /\ req.mode = "http" =>
              /\ response # None
              /\ response[1].status_code = 400
              /\ "error" \in DOMAIN response[1].content
              /\ out = <<>>
        /\ req.mode = "once" =>
              /\ out = <<NoFeedsLine>>
              /\ response = None

\* C7 witness: GET /jobs with hours, keywords and exclude given and no feed
\* configured was answered.
C7_Witness ==
    /\ pc = "done"
    /\ req.mode = "http"
    /\ req.hours # None /\ req.keywords # None /\ req.exclude # None
    /\ req.keywords[1] # <<>>
    /\ cfg[1].feeds = <<>>
    /\ response # None

\* the explicit list: the value of FEED_URLS, empty when it is not set
ExplicitList == IF env.FEED_URLS = None THEN <<>> ELSE env.FEED_URLS[1]

Commas(v) == {p \in 1..Len(v) : v[p] = ","}

\* the k-th comma of v; the 0-th stands before v and the last one behind it
CommaAt(v, k) ==
    IF k = 0 THEN 0
    ELSE IF k > Cardinality(Commas(v)) THEN Len(v) + 1
    ELSE CHOOSE p \in Commas(v) : Cardinality({q \in Commas(v) : q <= p}) = k

\* the entries of a comma-separated list, trimmed, the empty ones dropped
ExplicitEntries(v) ==
    LET piece(k) == Strip(SubSeq(v, CommaAt(v, k - 1) + 1, CommaAt(v, k) - 1))
        kept     == {k \in 1..(Cardinality(Commas(v)) + 1) : piece(k) # <<>>}
    IN  [n \in 1..Cardinality(kept) |->
            piece(CHOOSE k \in kept : Cardinality({m \in kept : m <= k}) = n)]

FeedsFilePath == IF env.FEEDS_FILE = None THEN DefaultFeedsFile ELSE env.FEEDS_FILE[1]

IsBlank(line) == \A n \in 1..Len(line) : IsSpace(line[n])

IsComment(line) ==
    \E n \in 1..Len(line) :
        /\ line[n] = "#"
        /\ \A m \in 1..(n-1) : IsSpace(line[m])

\* the non-blank, non-comment lines of the feeds file, trimmed, in order;
\* none when the file does not exist
FileEntries ==
    IF FeedsFilePath \notin DOMAIN files THEN <<>>
    ELSE LET lines == files[FeedsFilePath]
             kept  == {k \in 1..Len(lines) : ~IsBlank(lines[k]) /\ ~IsComment(lines[k])}
         IN  [n \in 1..Cardinality(kept) |->
                 Strip(lines[CHOOSE k \in kept : Cardinality({m \in kept : m <= k}) = n])]

\* C8 (as claimed): when the explicit list is not empty the feeds file is not
\* consulted and the feeds are the explicit entries; otherwise the feeds are
\* the entries of the feeds file.
C8_ExplicitListWins ==
    cfg # None =>
        IF ExplicitList # <<>>
        THEN ~fileRead /\ cfg[1].feeds = ExplicitEntries(ExplicitList)
        ELSE cfg[1].feeds = FileEntries

\* C8 (amended): when the explicit list holds at least one entry that is not
\* blank, the feeds file is not consulted and the feeds are the explicit
\* entries, trimmed, in order, the empty ones dropped; otherwise (FEED_URLS
\* unset, empty, or made of blank entries only) the feeds are the non-blank,
\* non-comment lines of the feeds file, trimmed, in order, and none when the
\* file does not exist.
C8_NonBlankExplicitListWins ==
    cfg # None =>
        IF ExplicitEntries(ExplicitList) # <<>>
        THEN ~fileRead /\ cfg[1].feeds = ExplicitEntries(ExplicitList)
        ELSE fileRead /\ cfg[1].feeds = FileEntries

\* C8 witness: FEED_URLS held an entry to trim or drop, the feeds file exists
\* and lists a feed, and the file was not consulted.
C8_Witness ==
    /\ cfg # None
    /\ cfg[1].feeds # <<>>
    /\ Len(Join(cfg[1].feeds, <<",">>)) < Len(ExplicitList)
    /\ FileEntries # <<>>
    /\ ~fileRead

IsCleanKeyword(k) == k # <<>> /\ Strip(k) = k /\ Lower(k) = k

AllClean(ks) == \A n \in 1..Len(ks) : IsCleanKeyword(ks[n])

\* C10 (as claimed): the keyword lists fetch_jobs is called with hold only
\* non-empty, trimmed, lowercased keywords.
C10_KeywordsClean ==
    call # None => AllClean(Args.keywords) /\ AllClean(Args.exclude)

====
